---- MODULE Spec2Model ----
(***************************************************************************)
(* Model of mastering_cli.py: a command line wrapper that runs ffmpeg and  *)
(* ffprobe, parses the loudnorm statistics printed on ffmpeg's diagnostic  *)
(* stream and prints one JSON object.                                      *)
(*                                                                         *)
(* Text is modelled as a sequence of lexical units (strings): single       *)
(* characters such as "{", "}", " ", ordinary log characters, and whole    *)
(* JSON members such as "input_i=-14.23" standing for                      *)
(*     "input_i" : "-14.23",                                               *)
(* Floating point values are integers in a stated decimal unit.            *)
(*                                                                         *)
(* Line 119 of the source applies ":=" to an attribute, which Python       *)
(* rejects when it compiles the file.  The model reads the line as what it *)
(* evidently means: store getattr(args, "input_trim_db", None) back into   *)
(* args.input_trim_db and test the stored value for truth.                 *)
(***************************************************************************)
EXTENDS Integers, Sequences, FiniteSets, TLC

VARIABLES
    pc,          \* position of main(): "start", "render", "loudnorm", "probe", "done"
    args,        \* the argparse.Namespace returned by parse_args()
    path,        \* the binaries shutil.which() finds on PATH
    procs,       \* the external processes run so far, in order: [cmd, returncode]
    result,      \* the CompletedProcess of the last run_subprocess()
    dirs,        \* directories created by mkdir(parents=True, exist_ok=True)
    stats,       \* measure_audio's local: the dict parsed from loudnorm's output
    stdout,      \* objects printed to standard output
    stderr,      \* lines printed to standard error
    exit_code,   \* exit status of the program, Running until it exits
    text,        \* parse_loudnorm_json: the diagnostic text given
    parsed,      \* parse_loudnorm_json: its outcome
    fargs,       \* build_filter_chain: the parameter record given
    built        \* build_filter_chain: its outcome

vars == <<pc, args, path, procs, result, dirs, stats, stdout, stderr, exit_code,
          text, parsed, fargs, built>>

parseVars == <<text, parsed>>
filterVars == <<fargs, built>>

(***************************************************************************)
(* Bounds of the model.                                                    *)
(***************************************************************************)
MaxTextLen == 4     \* longest diagnostic text given to parse_loudnorm_json alone
MaxOverrides == 2   \* most parameters moved off their defaults in one filter record

Running == -1

(***************************************************************************)
(* Python helpers on integers and strings.                                 *)
(***************************************************************************)
Abs(n) == IF n < 0 THEN -n ELSE n

Max(a, b) == IF a >= b THEN a ELSE b

RECURSIVE Pow10(_)
Pow10(k) == IF k = 0 THEN 1 ELSE 10 * Pow10(k - 1)

\* v / k rounded to the nearest integer, ties to the even one.
RoundDiv(v, k) ==
    LET q == v \div k
        r == v % k
    IN  IF 2 * r < k THEN q
        ELSE IF 2 * r > k THEN q + 1
        ELSE IF q % 2 = 0 THEN q ELSE q + 1

RECURSIVE ZeroPad(_, _)
ZeroPad(s, width) == IF Len(s) >= width THEN s ELSE ZeroPad("0" \o s, width)

\* format(x, ".<d>f") of the value v * 10^-e.
FormatFixed(v, e, d) ==
    LET n == RoundDiv(v, Pow10(e - d))
        whole == ToString(Abs(n) \div Pow10(d))
        frac == ZeroPad(ToString(Abs(n) % Pow10(d)), d)
    IN  (IF n < 0 THEN "-" ELSE "") \o whole \o "." \o frac

IsSpace(c) == c \in {" ", "\n", "\t"}

RECURSIVE lstrip(_)
lstrip(s) == IF s # <<>> /\ IsSpace(Head(s)) THEN lstrip(Tail(s)) ELSE s

RECURSIVE rstrip(_)
rstrip(s) ==
    IF s # <<>> /\ IsSpace(s[Len(s)]) THEN rstrip(SubSeq(s, 1, Len(s) - 1)) ELSE s

strip(s) == rstrip(lstrip(s))

\* s[:n] and s[-n:] for n > 0.
SliceHead(s, n) == SubSeq(s, 1, IF Len(s) < n THEN Len(s) ELSE n)

SliceTail(s, n) == SubSeq(s, IF Len(s) < n THEN 1 ELSE Len(s) - n + 1, Len(s))

\* str.find: the 0-based index of the first occurrence, -1 when there is none.
find(s, c) ==
    LET hits == {i \in 1..Len(s) : s[i] = c}
    IN  IF hits = {} THEN -1 ELSE (CHOOSE i \in hits : \A j \in hits : i <= j) - 1

\* str.rfind: the 0-based index of the last occurrence, -1 when there is none.
rfind(s, c) ==
    LET hits == {i \in 1..Len(s) : s[i] = c}
    IN  IF hits = {} THEN -1 ELSE (CHOOSE i \in hits : \A j \in hits : j <= i) - 1

(***************************************************************************)
(* JSON members of the loudnorm report and their values.                   *)
(***************************************************************************)
ValueTexts == {"-14.23", "-14.25", "-0.55", "-1.00", "-inf", "abc"}

MemberKey(m) ==
    CASE m \in {"input_i=" \o v : v \in ValueTexts} -> "input_i"
      [] m \in {"input_tp=" \o v : v \in ValueTexts} -> "input_tp"
      [] m = "input_lra=3.10" -> "input_lra"

MemberValue(m) ==
    CASE m = "input_lra=3.10" -> "3.10"
      [] OTHER -> CHOOSE v \in ValueTexts : m \in {"input_i=" \o v, "input_tp=" \o v}

Members ==
    {"input_i=" \o v : v \in ValueTexts} \cup {"input_tp=" \o v : v \in ValueTexts}
        \cup {"input_lra=3.10"}

\* json.loads of a snippet: an object is "{", members and white space, "}".
\* The dict maps each key to the value of its last member.
json_loads(snippet) ==
    IF /\ Len(snippet) >= 2
       /\ snippet[1] = "{"
       /\ snippet[Len(snippet)] = "}"
       /\ \A i \in 2..(Len(snippet) - 1) : snippet[i] \in Members \/ IsSpace(snippet[i])
    THEN LET at == {i \in 2..(Len(snippet) - 1) : snippet[i] \in Members}
             keys == {MemberKey(snippet[i]) : i \in at}
             last(k) == CHOOSE i \in at :
                            /\ MemberKey(snippet[i]) = k
                            /\ \A j \in at : MemberKey(snippet[j]) = k => j <= i
         IN  [ok |-> TRUE, dict |-> [k \in keys |-> MemberValue(snippet[last(k)])]]
    ELSE [ok |-> FALSE, dict |-> <<>>]

NoSnippet == <<"<none>">>

parse_loudnorm_json(stderr_output) ==
    LET start == rfind(stderr_output, "{")
        end == rfind(stderr_output, "}")
    IN  IF start = -1 \/ end = -1 \/ end <= start
        THEN [raised |-> "Unable to parse loudnorm output.",
              snippet |-> NoSnippet, dict |-> <<>>]
        ELSE LET snippet == SubSeq(stderr_output, start + 1, end + 1)
                 loaded == json_loads(snippet)
             IN  IF loaded.ok
                 THEN [raised |-> "", snippet |-> snippet, dict |-> loaded.dict]
                 ELSE [raised |-> "JSONDecodeError", snippet |-> snippet, dict |-> <<>>]

(***************************************************************************)
(* parse_loudnorm_json on its own, over every text up to MaxTextLen.       *)
(***************************************************************************)
ParseAlphabet == {"{", "}", "x", " ", "input_i=-14.23"}

RECURSIVE TextsUpTo(_)
TextsUpTo(n) ==
    IF n = 0 THEN {<<>>}
    ELSE LET shorter == TextsUpTo(n - 1)
         IN  shorter \cup {Append(s, c) : s \in {t \in shorter : Len(t) = n - 1},
                                          c \in ParseAlphabet}

NotParsed == [raised |-> "<not called>", snippet |-> NoSnippet, dict |-> <<>>]

(***************************************************************************)
(* Floats.  A float is [t, n]: t = "fin" with n the value in hundredths,   *)
(* t = "inf" with n the sign, t = "nan"; None is t = "none".               *)
(***************************************************************************)
None == [t |-> "none", n |-> 0]

Fin(n) == [t |-> "fin", n |-> n]

Inf(sign) == [t |-> "inf", n |-> sign]

NaN == [t |-> "nan", n |-> 0]

\* dict.get(key): the value, or nothing when the key is absent.
Get(dict, key) ==
    IF key \in DOMAIN dict THEN [has |-> TRUE, v |-> dict[key]]
    ELSE [has |-> FALSE, v |-> ""]

\* float(text) of the value texts of the model; ValueError for the others.
safe_float(value) ==
    IF ~value.has THEN None
    ELSE CASE value.v = "-14.23" -> Fin(-1423)
           [] value.v = "-14.25" -> Fin(-1425)
           [] value.v = "-0.55" -> Fin(-55)
           [] value.v = "-1.00" -> Fin(-100)
           [] value.v = "3.10" -> Fin(310)
           [] value.v = "-inf" -> Inf(-1)
           [] OTHER -> None

\* a - b on floats.
FloatSub(a, b) ==
    CASE a.t = "nan" \/ b.t = "nan" -> NaN
      [] a.t = "fin" /\ b.t = "fin" -> Fin(a.n - b.n)
      [] a.t = "inf" /\ b.t = "fin" -> a
      [] a.t = "fin" /\ b.t = "inf" -> Inf(-b.n)
      [] a.t = "inf" /\ b.t = "inf" -> IF a.n = b.n THEN NaN ELSE a

\* round(x, 1)
round1(x) == IF x.t = "fin" THEN Fin(RoundDiv(x.n, 10) * 10) ELSE x

(***************************************************************************)
(* Paths.                                                                  *)
(***************************************************************************)
InputFiles == {"in/song.wav", "song.wav"}

OutputFiles == {"out/master.wav", "master.wav"}

\* Path.name
PathName(p) ==
    CASE p \in {"in/song.wav", "song.wav"} -> "song.wav"
      [] p \in {"out/master.wav", "master.wav"} -> "master.wav"

\* Path.parent
PathParent(p) ==
    CASE p = "in/song.wav" -> "in"
      [] p = "out/master.wav" -> "out"
      [] p \in {"song.wav", "master.wav"} -> "."

FFMPEG_BIN == "ffmpeg"

FFPROBE_BIN == "ffprobe"

(***************************************************************************)
(* The filter graph.  Units of the parameters: gains input_trim_db,        *)
(* 10^-4 dB; comp_threshold and limiter_ceiling, 10^-1 dB; comp_ratio and  *)
(* the q's, 10^-4; attack and the releases, 10^-2 ms; the eq gains,        *)
(* 10^-3 dB; the eq frequencies, 10^-2 Hz.                                 *)
(***************************************************************************)
\* 10 ** (value / 20.0) in units of 10^-8, floored at 1e-6.
db_to_amplitude(value) ==
    LET amp == CASE value = -1400 -> 10
                 [] value = -1200 -> 100
                 [] value = -200 -> 10000000
                 [] value = -130 -> 22387211
                 [] value = -10 -> 89125094
                 [] value = -3 -> 96605088
                 [] value = 0 -> 100000000
    IN  Max(amp, 100)

\* milliseconds (10^-2 ms) / 1000.0, in units of 10^-6 s.
MsToSeconds(ms) == ms * 10

\* A list built with treble appended before bass.
FilterListTrebleFirst(volume, acompressor, bass, treble, alimiter) ==
    volume \o <<acompressor, treble, bass, alimiter>>

\* The order of the filters.append calls.
FilterList(volume, acompressor, bass, treble, alimiter) ==
    volume \o <<acompressor, bass, treble, alimiter>>

build_filters(a) ==
    LET input_trim_db == IF "input_trim_db" \in DOMAIN a THEN a.input_trim_db ELSE 0
        volume ==
            IF input_trim_db # 0 /\ Abs(input_trim_db) > 100
            THEN <<[name |-> "volume",
                    opts |-> FormatFixed(input_trim_db, 4, 3) \o "dB"]>>
            ELSE <<>>
        threshold_amp == db_to_amplitude(a.comp_threshold)
        attack == Max(MsToSeconds(a.attack), 1000)
        release == Max(MsToSeconds(a.release), 5000)
        acompressor ==
            [name |-> "acompressor",
             opts |-> "threshold=" \o FormatFixed(threshold_amp, 8, 6)
                      \o ":ratio=" \o FormatFixed(Max(a.comp_ratio, 10000), 4, 3)
                      \o ":attack=" \o FormatFixed(attack, 6, 4)
                      \o ":release=" \o FormatFixed(release, 6, 4)
                      \o ":makeup=0.0:knee=2.0"]
        bass ==
            [name |-> "bass",
             opts |-> "g=" \o FormatFixed(a.eq_low_db, 3, 2)
                      \o ":f=" \o FormatFixed(Max(a.eq_low_hz, 2000), 2, 1)
                      \o ":width_type=q:width="
                      \o FormatFixed(Max(a.eq_low_q, 1000), 4, 3)]
        treble ==
            [name |-> "treble",
             opts |-> "g=" \o FormatFixed(a.eq_high_db, 3, 2)
                      \o ":f=" \o FormatFixed(Max(a.eq_high_hz, 20000), 2, 1)
                      \o ":width_type=q:width="
                      \o FormatFixed(Max(a.eq_high_q, 1000), 4, 3)]
        limiter_limit == db_to_amplitude(a.limiter_ceiling)
        limiter_release == Max(MsToSeconds(a.limiter_release), 5000)
        alimiter ==
            [name |-> "alimiter",
             opts |-> "limit=" \o FormatFixed(limiter_limit, 8, 6)
                      \o ":level=1.0:attack=0.001:release="
                      \o FormatFixed(limiter_release, 6, 4)]
    IN  FilterList(volume, acompressor, bass, treble, alimiter)

\* ",".join(filters), each filter being name=opts.
RECURSIVE JoinFilters(_)
JoinFilters(filters) ==
    IF filters = <<>> THEN ""
    ELSE LET first == filters[1].name \o "=" \o filters[1].opts
         IN  IF Len(filters) = 1 THEN first
             ELSE first \o "," \o JoinFilters(Tail(filters))

build_filter_chain(a) == JoinFilters(build_filters(a))

\* The defaults of the master sub-command.
Defaults ==
    [target_lufs |-> -140, true_peak |-> -10, input_trim_db |-> 0,
     comp_threshold |-> -130, comp_ratio |-> 16000, attack |-> 1200,
     release |-> 8000, eq_low_hz |-> 12000, eq_low_db |-> -800,
     eq_low_q |-> 7000, eq_high_hz |-> 350000, eq_high_db |-> 600,
     eq_high_q |-> 7000, limiter_ceiling |-> -10, limiter_lookahead |-> 10,
     limiter_release |-> 4000, platform |-> "streaming",
     profile_name |-> "Streaming Default"]

\* Values a caller may give each option.
Choices(param) ==
    CASE param = "target_lufs" -> {-140, -90}
      [] param = "true_peak" -> {-10, -20}
      [] param = "input_trim_db" -> {0, 50, 100, 104, 15000, -20000}
      [] param = "comp_threshold" -> {-130, -200, -1400}
      [] param = "comp_ratio" -> {16000, 5000, 40000}
      [] param = "attack" -> {1200, 50}
      [] param = "release" -> {8000, 200}
      [] param = "eq_low_hz" -> {12000, 1000}
      [] param = "eq_low_db" -> {-800, 1500}
      [] param = "eq_low_q" -> {7000, 500}
      [] param = "eq_high_hz" -> {350000, 10000}
      [] param = "eq_high_db" -> {600, -2000}
      [] param = "eq_high_q" -> {7000, 500}
      [] param = "limiter_ceiling" -> {-10, -3, 0}
      [] param = "limiter_lookahead" -> {10, 50}
      [] param = "limiter_release" -> {4000, 100}
      [] param = "platform" -> {"streaming", "club"}
      [] param = "profile_name" -> {"Streaming Default", "Loud"}

Params == DOMAIN Defaults

\* Records with at most n options given, the others at their defaults.
RECURSIVE Overridden(_)
Overridden(n) ==
    IF n = 0 THEN {Defaults}
    ELSE LET fewer == Overridden(n - 1)
         IN  fewer \cup UNION {{[r EXCEPT ![p] = v] : v \in Choices(p)} :
                                    r \in fewer, p \in Params}

(***************************************************************************)
(* External processes.  A result is the CompletedProcess of run_subprocess.*)
(***************************************************************************)
RENDER_LIMIT == 600   \* the slice of render_master

TRIM_LIMIT == 600     \* the default limit of trim_log

\* No process has been run yet.
NoResult == [returncode |-> 0, stdout |-> <<>>, stderr |-> <<>>]

LogChar(i) == "c" \o ToString(i)

\* A log of n distinct characters between leading and trailing white space.
Log(lead, n, trail) ==
    [i \in 1..lead |-> " "] \o [i \in 1..n |-> LogChar(i)] \o [i \in 1..trail |-> "\n"]

FailLogs ==
    {<<>>, Log(1, 3, 2), Log(0, TRIM_LIMIT, 0), Log(2, TRIM_LIMIT, 1),
     Log(0, TRIM_LIMIT + 1, 0), Log(1, TRIM_LIMIT + 5, 1)}

FlowValues == {"-14.23", "-0.55", "-inf", "abc"}

\* What loudnorm prints: a banner, then the report as the last thing.
Report(banner, members) == banner \o <<"{", "\n">> \o members \o <<"}", "\n">>

LoudnormTexts ==
    LET is == {<<>>} \cup {<<"input_i=" \o v>> : v \in FlowValues}
        tps == {<<>>} \cup {<<"input_tp=" \o v>> : v \in FlowValues}
    IN  {Report(<<"c1", "\n">>, i \o tp \o <<"input_lra=3.10">>) : i \in is, tp \in tps}
        \cup {Report(<<"{", "c1", "}", "\n">>, <<"input_i=-14.23", "input_tp=-0.55">>),
              <<"c1", "c2">>, <<"}", "c1", "{">>, <<"{", "c1", "}">>}

\* What ffprobe prints on its standard output.
ProbeStdouts ==
    {<<>>, <<"c1">>, <<"{", "}">>, <<"{", "streams", "[", "]", "}">>}
        \cup {<<"{", "streams", "[", s, "]", "}">> :
                 s \in {"s24@48000", "fltp@44100", "s16", "u8@N/A"}}

\* The first stream of ffprobe's report; "" and 0 stand for an absent entry.
Stream(unit) ==
    CASE unit = "s24@48000" ->
            [sample_rate |-> "48000", bits_per_sample |-> 24,
             bits_per_raw_sample |-> "24", sample_fmt |-> "s32"]
      [] unit = "fltp@44100" ->
            [sample_rate |-> "44100", bits_per_sample |-> 0,
             bits_per_raw_sample |-> "", sample_fmt |-> "fltp"]
      [] unit = "s16" ->
            [sample_rate |-> "", bits_per_sample |-> 0,
             bits_per_raw_sample |-> "", sample_fmt |-> "s16"]
      [] unit = "u8@N/A" ->
            [sample_rate |-> "N/A", bits_per_sample |-> 0,
             bits_per_raw_sample |-> "", sample_fmt |-> "u8"]

EmptyProbe ==
    [sample_rate |-> "", bits_per_sample |-> 0, bits_per_raw_sample |-> "",
     sample_fmt |-> ""]

\* json.loads(result.stdout or "{}"), then the first of its streams.
probe_parse(out) ==
    IF out = <<>> \/ out = <<"{", "}">> \/ out = <<"{", "streams", "[", "]", "}">>
    THEN [raised |-> "", probe |-> EmptyProbe]
    ELSE IF Len(out) = 6 /\ out[1] = "{" /\ out[2] = "streams"
    THEN [raised |-> "", probe |-> Stream(out[4])]
    ELSE [raised |-> "JSONDecodeError", probe |-> EmptyProbe]

resolve_bit_depth(probe) ==
    IF probe.bits_per_sample # 0 THEN ToString(probe.bits_per_sample) \o "-bit"
    ELSE IF probe.bits_per_raw_sample # "" THEN probe.bits_per_raw_sample \o "-bit"
    ELSE CASE probe.sample_fmt \in {"flt", "fltp"} -> "32-bit float"
           [] probe.sample_fmt \in {"s16", "s16p"} -> "16-bit"
           [] probe.sample_fmt \in {"s24"} -> "24-bit"
           [] probe.sample_fmt \in {"s32", "s32p"} -> "32-bit"
           [] OTHER -> "None"

\* round(float(sr) / 1000.0, 1), in hundredths of a kHz.
sample_rate_khz(sr) ==
    CASE sr = "48000" -> [raised |-> "", value |-> Fin(RoundDiv(48000, 100) * 10)]
      [] sr = "44100" -> [raised |-> "", value |-> Fin(RoundDiv(44100, 100) * 10)]
      [] sr = "" -> [raised |-> "", value |-> None]
      [] OTHER -> [raised |-> "ValueError", value |-> None]

\* A crest taken from the rounded values.
crest_of_rounded(lufs, true_peak) ==
    IF lufs # None /\ true_peak # None
    THEN FloatSub(round1(true_peak), round1(lufs)) ELSE None

\* round((true_peak - lufs), 1) if both are floats, else None.
crest_of(lufs, true_peak) ==
    IF lufs # None /\ true_peak # None
    THEN round1(FloatSub(true_peak, lufs)) ELSE None

\* Lines 170-190 of measure_audio.
metrics_record(dict, probe, tag, audio_path) ==
    LET lufs == safe_float(Get(dict, "input_i"))
        true_peak == safe_float(Get(dict, "input_tp"))
        crest == crest_of(lufs, true_peak)
    IN  [lufs |-> IF lufs # None THEN round1(lufs) ELSE None,
         truePeak |-> IF true_peak # None THEN round1(true_peak) ELSE None,
         crest |-> crest,
         sampleRate |-> sample_rate_khz(probe.sample_rate).value,
         bitDepth |-> resolve_bit_depth(probe),
         notes |-> tag \o " metrics via ffmpeg loudnorm (" \o PathName(audio_path) \o ")"]

\* A trim_log that slices the log as given.
trim_log_unstripped(log) == SliceTail(log, TRIM_LIMIT)

trim_log(log) == SliceTail(strip(log), TRIM_LIMIT)

render_cmd(a) ==
    <<FFMPEG_BIN, "-hide_banner", "-y", "-nostdin", "-i", a.input_file,
      "-acodec", "pcm_s24le", "-af", build_filter_chain(a), a.output_file>>

\* A measurement whose targets follow --target-lufs and --true-peak.
loudnorm_cmd_targets(audio_path) ==
    <<FFMPEG_BIN, "-hide_banner", "-nostdin", "-i", audio_path, "-af",
      IF args.command = "master"
      THEN "loudnorm=I=" \o FormatFixed(args.target_lufs, 1, 0) \o ":TP="
           \o FormatFixed(args.true_peak, 1, 1) \o ":LRA=9:print_format=json"
      ELSE "loudnorm=I=-14:TP=-1.0:LRA=9:print_format=json",
      "-f", "null", "-">>

loudnorm_cmd(audio_path) ==
    <<FFMPEG_BIN, "-hide_banner", "-nostdin", "-i", audio_path, "-af",
      "loudnorm=I=-14:TP=-1.0:LRA=9:print_format=json", "-f", "null", "-">>

probe_cmd(audio_path) ==
    <<FFPROBE_BIN, "-v", "error", "-select_streams", "a:0", "-show_entries",
      "stream=sample_rate,channels,bits_per_sample,bits_per_raw_sample,sample_fmt",
      "-of", "json", audio_path>>

(***************************************************************************)
(* main().                                                                 *)
(***************************************************************************)
\* Option records given in the invocations of the model.
FlowKnobs ==
    {Defaults}
        \cup UNION {{[Defaults EXCEPT ![p] = v] : v \in Choices(p)} :
                       p \in {"target_lufs", "true_peak", "limiter_lookahead",
                              "platform", "profile_name", "input_trim_db"}}
        \cup {[Defaults EXCEPT !.target_lufs = -90, !.true_peak = -20,
                               !.limiter_lookahead = 50, !.platform = "club",
                               !.profile_name = "Loud"]}

AnalyzeArgs ==
    {[command |-> "analyze", input_file |-> f, tag |-> t] :
        f \in InputFiles, t \in {"analyze", "upload"}}

MasterArgs ==
    {[command |-> "master", input_file |-> f, output_file |-> o] @@ k :
        f \in InputFiles, o \in OutputFiles, k \in FlowKnobs}

\* parse_args(), and the host the program starts on.
Init ==
    /\ pc = "start"
    /\ args \in AnalyzeArgs \cup MasterArgs
    /\ path \in SUBSET {FFMPEG_BIN, FFPROBE_BIN}
    /\ procs = <<>>
    /\ result = NoResult
    /\ dirs = {}
    /\ stats = <<>>
    /\ stdout = <<>>
    /\ stderr = <<>>
    /\ exit_code = Running
    /\ text = <<>>
    /\ parsed = NotParsed
    /\ fargs = Defaults
    /\ built = <<>>

\* except Exception as exc: print to stderr, sys.exit(1).
Raise(msg, detail) ==
    /\ stderr' = Append(stderr, [prefix |-> "[mastering_cli] ", msg |-> msg,
                                 detail |-> detail])
    /\ exit_code' = 1
    /\ pc' = "done"

\* A run that is repeated once.
RanRetried(cmd, r) ==
    Append(Append(procs, [cmd |-> cmd, returncode |-> r.returncode]),
           [cmd |-> cmd, returncode |-> r.returncode])

\* run_subprocess(cmd) with the outcome r.
Ran(cmd, r) == Append(procs, [cmd |-> cmd, returncode |-> r.returncode])

\* A check that sees only termination by a signal.
FailedOnSignal(r) == r.returncode < 0

\* result.returncode != 0
Failed(r) == r.returncode # 0

\* Outcomes of ffmpeg: it writes its log, and the loudnorm report, on stderr.
RenderResults ==
    [returncode : {0}, stdout : {<<>>}, stderr : {Log(0, 3, 1)}]
        \cup [returncode : {1, 234}, stdout : {<<>>}, stderr : FailLogs]

LoudnormResults ==
    [returncode : {0}, stdout : {<<>>}, stderr : LoudnormTexts \cup {Log(0, 3, 1)}]
        \cup [returncode : {1}, stdout : {<<>>},
              stderr : FailLogs \cup {Report(<<"c1">>, <<"input_i=-14.23">>)}]

\* Outcomes of ffprobe: the report on stdout, errors on stderr.
ProbeResults ==
    [returncode : {0}, stdout : ProbeStdouts, stderr : {<<>>}]
        \cup [returncode : {1}, stdout : {<<>>, <<"{", "}">>}, stderr : FailLogs]

\* A check of ffmpeg alone.
ensure_ffmpeg_only == IF FFMPEG_BIN \notin path THEN FFMPEG_BIN ELSE ""

\* The binary ensure_binaries() misses first, "" when it misses none.
ensure_binaries ==
    IF FFMPEG_BIN \notin path THEN FFMPEG_BIN
    ELSE IF FFPROBE_BIN \notin path THEN FFPROBE_BIN
    ELSE ""

EnsureBinaries ==
    /\ pc = "start"
    /\ IF ensure_binaries # ""
       THEN Raise("Required binary '" \o ensure_binaries \o "' was not found on PATH. "
                  \o "Install ffmpeg/ffprobe or set FFMPEG_BIN / FFPROBE_BIN.", <<>>)
       ELSE /\ pc' = IF args.command = "analyze" THEN "loudnorm" ELSE "render"
            /\ UNCHANGED <<stderr, exit_code>>
    /\ UNCHANGED <<args, path, procs, result, dirs, stats, stdout, parseVars,
                   filterVars>>

\* mkdir of the output's parent, then render_master(args).
RenderMaster ==
    /\ pc = "render"
    /\ dirs' = dirs \cup {PathParent(args.output_file)}
    /\ \E r \in RenderResults :
          /\ procs' = Ran(render_cmd(args), r)
          /\ result' = r
          /\ IF Failed(r)
             THEN Raise("ffmpeg mastering failed: ",
                        SliceHead(strip(r.stderr), RENDER_LIMIT))
             ELSE /\ pc' = "loudnorm"
                  /\ UNCHANGED <<stderr, exit_code>>
    /\ UNCHANGED <<args, path, stats, stdout, parseVars, filterVars>>

\* A measurement of the input in both modes.
AudioPathInput == args.input_file

\* The file measure_audio is called on.
AudioPath == IF args.command = "analyze" THEN args.input_file ELSE args.output_file

Tag == IF args.command = "analyze" THEN args.tag ELSE "mastered"

\* measure_audio up to the call of probe_stream.
MeasureLoudnorm ==
    /\ pc = "loudnorm"
    /\ \E r \in LoudnormResults :
          /\ procs' = Ran(loudnorm_cmd(AudioPath), r)
          /\ result' = r
          /\ LET out == parse_loudnorm_json(r.stderr)
             IN  IF Failed(r)
                 THEN /\ Raise("ffmpeg loudnorm failed: ", trim_log(r.stderr))
                      /\ UNCHANGED stats
                 ELSE IF out.raised # ""
                 THEN /\ Raise(out.raised, <<>>)
                      /\ UNCHANGED stats
                 ELSE /\ stats' = out.dict
                      /\ pc' = "probe"
                      /\ UNCHANGED <<stderr, exit_code>>
    /\ UNCHANGED <<args, path, dirs, stdout, parseVars, filterVars>>

\* An object with platform and profile name exchanged.
PrintedSwapped(metrics) ==
    IF args.command = "analyze" THEN [metrics |-> metrics]
    ELSE [finalMetrics |-> metrics, outputFile |-> args.output_file,
          platform |-> args.profile_name, profileName |-> args.platform]

\* The object main() prints.
Printed(metrics) ==
    IF args.command = "analyze" THEN [metrics |-> metrics]
    ELSE [finalMetrics |-> metrics, outputFile |-> args.output_file,
          platform |-> args.platform, profileName |-> args.profile_name]

\* probe_stream, the rest of measure_audio, and the print of main().
MeasureProbe ==
    /\ pc = "probe"
    /\ \E r \in ProbeResults :
          /\ procs' = Ran(probe_cmd(AudioPath), r)
          /\ result' = r
          /\ LET out == probe_parse(r.stdout)
                 rate == sample_rate_khz(out.probe.sample_rate)
             IN  IF Failed(r)
                 THEN /\ Raise("ffprobe failed for " \o AudioPath \o ": ",
                               trim_log(r.stderr))
                      /\ UNCHANGED stdout
                 ELSE IF out.raised # ""
                 THEN /\ Raise(out.raised, <<>>)
                      /\ UNCHANGED stdout
                 ELSE IF rate.raised # ""
                 THEN /\ Raise(rate.raised, <<>>)
                      /\ UNCHANGED stdout
                 ELSE /\ stdout' = Append(stdout,
                              Printed(metrics_record(stats, out.probe, Tag, AudioPath)))
                      /\ exit_code' = 0
                      /\ pc' = "done"
                      /\ UNCHANGED stderr
    /\ UNCHANGED <<args, path, dirs, stats, parseVars, filterVars>>

Next == EnsureBinaries \/ RenderMaster \/ MeasureLoudnorm \/ MeasureProbe

Spec == Init /\ [][Next]_vars

(***************************************************************************)
(* parse_loudnorm_json applied to every text up to MaxTextLen.             *)
(***************************************************************************)
InitParse ==
    /\ pc = "parse"
    /\ text \in TextsUpTo(MaxTextLen)
    /\ parsed = NotParsed
    /\ args = [command |-> "none"]
    /\ path = {}
    /\ procs = <<>>
    /\ result = NoResult
    /\ dirs = {}
    /\ stats = <<>>
    /\ stdout = <<>>
    /\ stderr = <<>>
    /\ exit_code = Running
    /\ fargs = Defaults
    /\ built = <<>>

Parse ==
    /\ pc = "parse"
    /\ parsed' = parse_loudnorm_json(text)
    /\ pc' = "parsed"
    /\ UNCHANGED <<args, path, procs, result, dirs, stats, stdout, stderr, exit_code,
                   text, filterVars>>

NextParse == Parse

SpecParse == InitParse /\ [][NextParse]_vars

(***************************************************************************)
(* build_filter_chain applied to records with up to MaxOverrides options.  *)
(***************************************************************************)
InitFilter ==
    /\ pc = "build"
    /\ fargs \in Overridden(MaxOverrides)
    /\ built = <<>>
    /\ args = [command |-> "none"]
    /\ path = {}
    /\ procs = <<>>
    /\ result = NoResult
    /\ dirs = {}
    /\ stats = <<>>
    /\ stdout = <<>>
    /\ stderr = <<>>
    /\ exit_code = Running
    /\ text = <<>>
    /\ parsed = NotParsed

BuildFilterChain ==
    /\ pc = "build"
    /\ built' = [filters |-> build_filters(fargs), chain |-> build_filter_chain(fargs)]
    /\ pc' = "built"
    /\ UNCHANGED <<args, path, procs, result, dirs, stats, stdout, stderr, exit_code,
                   fargs, parseVars>>

NextFilter == BuildFilterChain

SpecFilter == InitFilter /\ [][NextFilter]_vars

(***************************************************************************)
(* Properties.                                                             *)
(***************************************************************************)
IsRenderCmd(c) == Len(c) = 11 /\ c[1] = FFMPEG_BIN /\ c[3] = "-y"

IsLoudnormCmd(c) == Len(c) = 10 /\ c[1] = FFMPEG_BIN /\ c[8] = "-f"

IsProbeCmd(c) == Len(c) = 10 /\ c[1] = FFPROBE_BIN

LoudnormFilter == "loudnorm=I=-14:TP=-1.0:LRA=9:print_format=json"

Exited == exit_code # Running

\* C1: in analyze and in master mode, once an external process (render,
\* loudness measurement or stream probe) has exited with a non-zero status
\* the program has exited with a non-zero status and has printed no result
\* object on standard output.
C1_FailedProcessFailsInvocation ==
    (\E i \in DOMAIN procs : procs[i].returncode # 0)
        => /\ pc = "done"
           /\ Exited
           /\ exit_code # 0
           /\ stdout = <<>>

C1_Witness ==
    /\ args.command = "master"
    /\ Len(procs) = 3
    /\ IsProbeCmd(procs[3].cmd)
    /\ procs[3].returncode # 0
    /\ pc = "done"

FfmpegRuns == SelectSeq(procs, LAMBDA p : p.cmd[1] = FFMPEG_BIN)

\* C2: a successful master invocation has run ffmpeg exactly twice, first
\* the render of input_file to output_file and then the loudness measurement
\* of output_file; and in master mode a measurement is only ever started
\* directly after a render that exited with status 0.
C2_RenderThenMeasureOutput ==
    args.command = "master" =>
        /\ (pc = "done" /\ exit_code = 0) =>
              /\ Len(FfmpegRuns) = 2
              /\ IsRenderCmd(FfmpegRuns[1].cmd)
              /\ FfmpegRuns[1].cmd[5] = "-i"
              /\ FfmpegRuns[1].cmd[6] = args.input_file
              /\ FfmpegRuns[1].cmd[11] = args.output_file
              /\ IsLoudnormCmd(FfmpegRuns[2].cmd)
              /\ FfmpegRuns[2].cmd[4] = "-i"
              /\ FfmpegRuns[2].cmd[5] = args.output_file
              /\ FfmpegRuns[2].cmd[7] = LoudnormFilter
        /\ \A i \in DOMAIN procs :
              IsLoudnormCmd(procs[i].cmd) =>
                  /\ i > 1
                  /\ IsRenderCmd(procs[i - 1].cmd)
                  /\ procs[i - 1].returncode = 0

C2_Witness ==
    /\ args.command = "master"
    /\ pc = "done"
    /\ exit_code = 0
    /\ args.input_file # args.output_file
    /\ Len(procs) = 3

Opens == {i \in 1..Len(text) : text[i] = "{"}

Closes == {i \in 1..Len(text) : text[i] = "}"}

ParseError == "Unable to parse loudnorm output."

\* C3 (as stated): whenever the text has a "{" followed later by a "}",
\* parse_loudnorm_json parses the substring from the first "{" to the last
\* "}"; otherwise it raises 'Unable to parse loudnorm output.'.
C3_FirstBraceToLastBrace ==
    pc = "parsed" =>
        IF \E i \in Opens, j \in Closes : i < j
        THEN \E i \in Opens, j \in Closes :
                /\ \A k \in Opens : i <= k
                /\ \A k \in Closes : k <= j
                /\ parsed.raised # ParseError
                /\ parsed.snippet = SubSeq(text, i, j)
        ELSE parsed.raised = ParseError

\* C3 (amended): whenever the text has a "{" and its last "}" comes after
\* its last "{", parse_loudnorm_json parses the substring from the last "{"
\* to the last "}" as the JSON object; otherwise it raises 'Unable to parse
\* loudnorm output.'.
C3_LastBraceToLastBrace ==
    pc = "parsed" =>
        IF Opens # {} /\ \E j \in Closes : \A i \in Opens : i < j
        THEN \E i \in Opens, j \in Closes :
                /\ \A k \in Opens : k <= i
                /\ \A k \in Closes : k <= j
                /\ parsed.raised # ParseError
                /\ parsed.snippet = SubSeq(text, i, j)
                /\ parsed.raised = "" <=> json_loads(SubSeq(text, i, j)).ok
                /\ parsed.dict = json_loads(SubSeq(text, i, j)).dict
        ELSE parsed.raised = ParseError

C3_Witness ==
    /\ pc = "parsed"
    /\ Cardinality(Opens) >= 2
    /\ parsed.raised = ""
    /\ DOMAIN parsed.dict = {"input_i"}
    /\ Len(parsed.snippet) < Len(text)

StageOrder == <<"volume", "acompressor", "bass", "treble", "alimiter">>

Rank(name) == CHOOSE i \in 1..Len(StageOrder) : StageOrder[i] = name

Present(filters, name) == \E i \in DOMAIN filters : filters[i].name = name

\* The stage an option belongs to.
Owner(param) ==
    CASE param = "input_trim_db" -> "volume"
      [] param \in {"comp_threshold", "comp_ratio", "attack", "release"} -> "acompressor"
      [] param \in {"eq_low_hz", "eq_low_db", "eq_low_q"} -> "bass"
      [] param \in {"eq_high_hz", "eq_high_db", "eq_high_q"} -> "treble"
      [] param \in {"limiter_ceiling", "limiter_release"} -> "alimiter"
      [] OTHER -> "none"

Count(P(_)) == Cardinality({i \in DOMAIN procs : P(procs[i].cmd)})

C5_State ==
    /\ Count(IsRenderCmd) <= 1
    /\ Count(IsLoudnormCmd) <= 1
    /\ Count(IsProbeCmd) <= 1
    /\ \A i \in DOMAIN procs : procs[i].returncode # 0 => i = Len(procs)

\* C5: each external command (render, loudness measurement, stream probe) is
\* run at most once, a process that exited non-zero is the last one run, and
\* once an error has been reported (a non-zero exit or output that cannot be
\* parsed) no further process is started.
C5_NoRetries ==
    /\ []C5_State
    /\ [][(stderr # <<>> \/ \E i \in DOMAIN procs : procs[i].returncode # 0)
              => procs' = procs]_vars

C5_Witness ==
    /\ args.command = "master"
    /\ Len(procs) = 2
    /\ procs[2].returncode = 0
    /\ stderr # <<>>
    /\ stderr[1].msg = ParseError

AllProcessesDone ==
    /\ Len(procs) = (IF args.command = "analyze" THEN 2 ELSE 3)
    /\ \A i \in DOMAIN procs : procs[i].returncode = 0
    /\ IsProbeCmd(procs[Len(procs)].cmd)

C6_State ==
    /\ Len(stdout) <= 1
    /\ (pc = "done" /\ exit_code = 0) => Len(stdout) = 1
    /\ stdout # <<>> =>
          /\ pc = "done"
          /\ exit_code = 0
          /\ AllProcessesDone
          /\ args.command = "analyze" => DOMAIN stdout[1] = {"metrics"}
          /\ args.command = "master" =>
                /\ DOMAIN stdout[1] =
                      {"finalMetrics", "outputFile", "platform", "profileName"}
                /\ stdout[1].outputFile = args.output_file
                /\ stdout[1].platform = args.platform
                /\ stdout[1].profileName = args.profile_name

\* C6: a successful invocation prints exactly one object, after every
\* external process has finished, and takes no step after printing; analyze
\* prints the single key metrics, master prints finalMetrics, outputFile,
\* platform and profileName, the last three echoing the arguments.
C6_OneObjectLast ==
    /\ []C6_State
    /\ [][stdout = <<>>]_vars

C6_Witness ==
    /\ args.command = "master"
    /\ stdout # <<>>
    /\ args.platform = "club"
    /\ args.profile_name = "Loud"

PrintedMetrics ==
    IF args.command = "analyze" THEN stdout[1].metrics ELSE stdout[1].finalMetrics

\* C7: in the printed metrics crest is null exactly when input_i or input_tp
\* does not parse as a number, the lufs / truePeak field of a value that does
\* not parse is null too, and otherwise crest is the parsed true peak minus
\* the parsed LUFS value, rounded to one decimal.
C7_Crest ==
    stdout # <<>> =>
        LET lufs == safe_float(Get(stats, "input_i"))
            true_peak == safe_float(Get(stats, "input_tp"))
            m == PrintedMetrics
        IN  /\ m.crest = None <=> (lufs = None \/ true_peak = None)
            /\ lufs = None <=> m.lufs = None
            /\ true_peak = None <=> m.truePeak = None
            /\ m.crest # None => m.crest = round1(FloatSub(true_peak, lufs))
            /\ (lufs.t = "fin" /\ true_peak.t = "fin") =>
                  /\ m.crest.t = "fin"
                  /\ m.crest.n % 10 = 0
                  /\ 2 * Abs(m.crest.n - (true_peak.n - lufs.n)) <= 10

C7_Witness ==
    /\ stdout # <<>>
    /\ PrintedMetrics.crest = Fin(1370)
    /\ PrintedMetrics.truePeak = Fin(-60)
    /\ PrintedMetrics.lufs = Fin(-1420)

\* The text without its leading and trailing white space.
Stripped(t) ==
    IF \A i \in 1..Len(t) : IsSpace(t[i]) THEN <<>>
    ELSE SubSeq(t,
             CHOOSE i \in 1..Len(t) :
                 ~IsSpace(t[i]) /\ \A j \in 1..(i - 1) : IsSpace(t[j]),
             CHOOSE i \in 1..Len(t) :
                 ~IsSpace(t[i]) /\ \A j \in (i + 1)..Len(t) : IsSpace(t[j]))

\* C8: when an external process (render, loudness measurement or stream
\* probe) exits non-zero, the detail of the reported error is a contiguous
\* part of that process's stripped stderr of at most 600 characters, and is
\* the whole stripped stderr when that has 600 characters or fewer.
C8_TruncatedDiagnostics ==
    (procs # <<>> /\ procs[Len(procs)].returncode # 0) =>
        LET whole == Stripped(result.stderr)
            detail == stderr[Len(stderr)].detail
        IN  /\ Len(stderr) = 1
            /\ Len(detail) <= 600
            /\ Len(whole) <= 600 => detail = whole
            /\ \E k \in 0..(Len(whole) - Len(detail)) :
                  detail = SubSeq(whole, k + 1, k + Len(detail))
            /\ stderr[1].msg \in
                  {"ffmpeg mastering failed: ", "ffmpeg loudnorm failed: ",
                   "ffprobe failed for " \o AudioPath \o ": "}

C8_Witness ==
    /\ procs # <<>>
    /\ procs[Len(procs)].returncode # 0
    /\ IsLoudnormCmd(procs[Len(procs)].cmd)
    /\ Len(Stripped(result.stderr)) > 600
    /\ Len(result.stderr) > Len(Stripped(result.stderr))
    /\ Len(stderr[1].detail) = 600

\* C9: when ffmpeg or ffprobe is not found on PATH, in both modes no external
\* process is started, no directory is created, nothing is printed on
\* standard output, and the program exits with status 1.
C9_BinariesBeforeSideEffects ==
    ({FFMPEG_BIN, FFPROBE_BIN} \ path # {}) =>
        /\ procs = <<>>
        /\ dirs = {}
        /\ stdout = <<>>
        /\ pc \in {"start", "done"}
        /\ pc = "done" => exit_code = 1

C9_Witness ==
    /\ args.command = "master"
    /\ path = {FFMPEG_BIN}
    /\ pc = "done"
    /\ exit_code = 1

\* The invocation with the five options set to the given values.
WithIgnored(tl, tp, la, pf, pn) ==
    [args EXCEPT !.target_lufs = tl, !.true_peak = tp, !.limiter_lookahead = la,
                 !.platform = pf, !.profile_name = pn]

\* C10: the commands of a master invocation are those of every invocation
\* that differs from it only in --target-lufs, --true-peak,
\* --limiter-lookahead, --platform or --profile-name: the same filter graph,
\* the same render command, and a measurement with I=-14, TP=-1.0, LRA=9.
\* The render command is compared with those of the other invocations in the
\* state it is issued in, and with the one of this invocation ever after.
C10_IgnoredOptions ==
    args.command = "master" =>
        \A i \in DOMAIN procs :
            /\ IsRenderCmd(procs[i].cmd) => procs[i].cmd = render_cmd(args)
            /\ (IsRenderCmd(procs[i].cmd) /\ i = Len(procs)) =>
                  \A tl \in Choices("target_lufs"), tp \in Choices("true_peak"),
                     la \in Choices("limiter_lookahead"), pf \in Choices("platform"),
                     pn \in Choices("profile_name") :
                      LET other == WithIgnored(tl, tp, la, pf, pn)
                      IN  /\ procs[i].cmd[10] = build_filter_chain(other)
                          /\ procs[i].cmd = render_cmd(other)
            /\ IsLoudnormCmd(procs[i].cmd) =>
                  procs[i].cmd =
                      <<FFMPEG_BIN, "-hide_banner", "-nostdin", "-i", args.output_file,
                        "-af", LoudnormFilter, "-f", "null", "-">>

C10_Witness ==
    /\ args.command = "master"
    /\ args.target_lufs = -90
    /\ args.true_peak = -20
    /\ args.limiter_lookahead = 50
    /\ Len(procs) >= 2
    /\ procs[2].returncode = 0

====
